---- MODULE Spec2Model ----
\* Binary option program (solana_test_binary_option/src/lib.rs): one data account
\* holding a BinaryOptionData record, the bet/settle entrypoint, the clock sysvar
\* and the chainlink price feed the entrypoint reads.
\*
\* Every integer of the program is kept at its full width as a little-endian
\* sequence of bytes (the borsh layout): u32 = 4 bytes, u64 and i64 = 8 bytes,
\* u128 = 16 bytes.  Arithmetic is done digit by digit, so overflow, wrapping
\* and the `as` casts are the program's, not the model checker's.
EXTENDS Integers, Sequences, FiniteSets, TLC

VARIABLES
    data,             \* bytes of the data account (the persisted BinaryOptionData)
    clock,            \* Clock::get().unix_timestamp, an i64 (8 bytes, non-negative)
    ticks,            \* how many times the clock has advanced
    overflow_checks,  \* build profile: TRUE = arithmetic overflow panics, FALSE = wraps
    settles,          \* how many settlements have been persisted
    wins,             \* how many of them took the `score += 1` branch
    opened,           \* what the most recent successful open wrote
    last              \* the last invocation: its inputs, the record before it, its result

vars == <<data, clock, ticks, overflow_checks, settles, wins, opened, last>>

-----------------------------------------------------------------------------
\* Bounds of the model.

MaxTicks == 3
MaxSettles == 2

-----------------------------------------------------------------------------
\* Fixed-width little-endian unsigned integers.

RECURSIVE FromInt(_, _)
FromInt(k, n) == IF n = 0 THEN <<>> ELSE <<k % 256>> \o FromInt(k \div 256, n - 1)

U32(k) == FromInt(k, 4)
U64(k) == FromInt(k, 8)
I64(k) == FromInt(k, 8)
U128(k) == FromInt(k, 16)

\* zero extension (u32 as i64, u32 as u64) and truncation (i64 as u32, u128 as u64)
Extend(a, n) == a \o [i \in 1..(n - Len(a)) |-> 0]
Truncate(a, n) == SubSeq(a, 1, n)

RECURSIVE CarryInto(_, _, _)
CarryInto(a, b, i) ==
    IF i = 1 THEN 0 ELSE (a[i - 1] + b[i - 1] + CarryInto(a, b, i - 1)) \div 256

RECURSIVE BorrowInto(_, _, _)
BorrowInto(a, b, i) ==
    IF i = 1 THEN 0
    ELSE IF a[i - 1] - b[i - 1] - BorrowInto(a, b, i - 1) < 0 THEN 1 ELSE 0

WrappingAdd(a, b) == [i \in 1..Len(a) |-> (a[i] + b[i] + CarryInto(a, b, i)) % 256]
AddOverflows(a, b) == CarryInto(a, b, Len(a) + 1) = 1
WrappingSub(a, b) ==
    [i \in 1..Len(a) |-> (a[i] - b[i] - BorrowInto(a, b, i) + 256) % 256]
SubOverflows(a, b) == BorrowInto(a, b, Len(a) + 1) = 1

\* a < b and a > b on equal-width unsigned integers
LessThan(a, b) == BorrowInto(a, b, Len(a) + 1) = 1
GreaterThan(a, b) == LessThan(b, a)

\* Rust's `a + b` and `a - b` on unsigned integers: on overflow the build either
\* panics (overflow checks on) or wraps (overflow checks off).
Plus(a, b, checks) ==
    [panic |-> checks /\ AddOverflows(a, b), value |-> WrappingAdd(a, b)]
Minus(a, b, checks) ==
    [panic |-> checks /\ SubOverflows(a, b), value |-> WrappingSub(a, b)]

-----------------------------------------------------------------------------
\* Program constants.

MATURITY_MARGIN == 5
FIXED_DURATION == 300
RecordSize == 18
InstructionSize == 4

\* the literals of the program, at the width the program uses them
SETTLE == U32(0)
OPEN_LONG == U32(1)
OPEN_SHORT == U32(2)
MARGIN_U32 == U32(MATURITY_MARGIN)
DURATION_U32 == U32(FIXED_DURATION)
ONE_U32 == U32(1)

PROGRAM_ID == "program_id"
SOL_USD_KEY == "FmAmfoyPXiA8Vhhe6MZTr3U6rZfEZ1ctEHay1ysqCqcf"

-----------------------------------------------------------------------------
\* BinaryOptionData and BinaryOptionInstruction, borsh encoded.

\* what stands in for the record where none was decoded
DefaultData ==
    [score |-> U32(0), maturity_timestamp |-> U32(0), strike_price |-> U64(0),
     is_higher |-> 0, is_betting |-> 0]

\* BinaryOptionData::try_from_slice: the slice must hold exactly the record
BinaryOptionData_try_from_slice(bytes) ==
    IF Len(bytes) # RecordSize
    THEN [ok |-> FALSE, value |-> DefaultData]
    ELSE [ok |-> TRUE,
          value |-> [score |-> SubSeq(bytes, 1, 4),
                     maturity_timestamp |-> SubSeq(bytes, 5, 8),
                     strike_price |-> SubSeq(bytes, 9, 16),
                     is_higher |-> bytes[17],
                     is_betting |-> bytes[18]]]

\* BinaryOptionData::serialize: the fields in declaration order
BinaryOptionData_serialize(pd) ==
    pd.score \o pd.maturity_timestamp \o pd.strike_price
        \o <<pd.is_higher, pd.is_betting>>

\* BinaryOptionInstruction::try_from_slice: exactly one u32
BinaryOptionInstruction_try_from_slice(bytes) ==
    IF Len(bytes) # InstructionSize
    THEN [ok |-> FALSE, command |-> SETTLE]
    ELSE [ok |-> TRUE, command |-> bytes]

-----------------------------------------------------------------------------
\* Results of an invocation: Ok, a ProgramError, or a panic of the program.

Ok == <<"Ok">>
Panic == <<"Panic">>
NotEnoughAccountKeys == <<"NotEnoughAccountKeys">>
InvalidAccountData == <<"InvalidAccountData">>
InvalidInstructionData == <<"InvalidInstructionData">>
BorshIoError == <<"BorshIoError">>
FeedError == <<"FeedError">>
Custom(code) == <<"Custom", code>>

\* enum BinaryOptionError, and `e as u32` in From<BinaryOptionError>
MaturityNotReached == 0
MarketPriceNotFound == 1
NoPosition == 2
BinaryOptionError_into(e) == Custom(e)

-----------------------------------------------------------------------------
\* The chainlink feed.  What the feed answers is the environment's choice: an
\* error, no value, or a value (a u128; a round is Submission(i64, u128)).

Prices == {U128(100), U128(110), U64(105) \o U64(1)}

NO_PRICE == U128(0)

FeedReplies ==
    {[kind |-> "Err", price |-> NO_PRICE], [kind |-> "None", price |-> NO_PRICE]}
        \cup {[kind |-> "Some", price |-> p] : p \in Prices}

\* the feed was not asked
NotAsked == [kind |-> "NotAsked", price |-> NO_PRICE]

\* chainlink::get_round(&chainlink::id(), feed_account, timestamp)
get_round(reply, timestamp) ==
    [err |-> reply.kind = "Err",
     some |-> reply.kind = "Some",
     ts |-> timestamp,
     settlement_price |-> reply.price]

\* chainlink::get_price(&chainlink::id(), feed_account)
get_price(reply) ==
    [err |-> reply.kind = "Err",
     some |-> reply.kind = "Some",
     current_price |-> reply.price]

NoQuery == <<>>

-----------------------------------------------------------------------------
\* fn settle and fn bet.  Each returns the result, the local program_data as the
\* function leaves it, and the timestamp it asked the feed for.

IsWin(program_data, settlement_price) ==
    \/ program_data.is_higher = 0
         /\ GreaterThan(program_data.strike_price, Truncate(settlement_price, 8))
    \/ program_data.is_higher = 1
         /\ LessThan(program_data.strike_price, Truncate(settlement_price, 8))

\* (variant: the feed asked for the round at the time of the Settle)
settle_asking_for_now(program_data, reply, checks) ==
    LET query == clock
        price == get_round(reply, query)
        won == Plus(program_data.score, ONE_U32, checks)
        lost == Minus(program_data.score, ONE_U32, checks)
        step == IF price.some /\ IsWin(program_data, price.settlement_price)
                THEN won ELSE lost
    IN  IF price.err
        THEN [result |-> FeedError, program_data |-> program_data,
              called |-> "settle", query |-> query]
        ELSE IF step.panic
        THEN [result |-> Panic, program_data |-> program_data,
              called |-> "settle", query |-> query]
        ELSE [result |-> Ok,
              program_data |-> [program_data EXCEPT !.score = step.value,
                                                    !.is_betting = 0],
              called |-> "settle", query |-> query]

settle(program_data, reply, checks) ==
    LET query == Extend(program_data.maturity_timestamp, 8)
        price == get_round(reply, query)
        won == Plus(program_data.score, ONE_U32, checks)
        lost == Minus(program_data.score, ONE_U32, checks)
        step == IF price.some /\ IsWin(program_data, price.settlement_price)
                THEN won ELSE lost
    IN  IF price.err
        THEN [result |-> FeedError, program_data |-> program_data,
              called |-> "settle", query |-> query]
        ELSE IF step.panic
        THEN [result |-> Panic, program_data |-> program_data,
              called |-> "settle", query |-> query]
        ELSE [result |-> Ok,
              program_data |-> [program_data EXCEPT !.score = step.value,
                                                    !.is_betting = 0],
              called |-> "settle", query |-> query]

\* (variant: a missing current price taken as the price 0)
bet_missing_price_as_zero(program_data, is_higher, current_timestamp, reply, checks) ==
    LET price == get_price(reply)
        maturity == Plus(current_timestamp, DURATION_U32, checks)
    IN  IF price.err
        THEN [result |-> FeedError, program_data |-> program_data,
              called |-> "bet", query |-> NoQuery]
        ELSE IF maturity.panic
        THEN [result |-> Panic, program_data |-> program_data,
              called |-> "bet", query |-> NoQuery]
        ELSE [result |-> Ok,
              program_data |-> [program_data EXCEPT
                                    !.strike_price = Truncate(price.current_price, 8),
                                    !.maturity_timestamp = maturity.value,
                                    !.is_higher = is_higher,
                                    !.is_betting = 1],
              called |-> "bet", query |-> NoQuery]

\* (variant: a new position starts the score again at 0)
bet_resetting_score(program_data, is_higher, current_timestamp, reply, checks) ==
    LET price == get_price(reply)
        striked == [program_data EXCEPT
                        !.strike_price = Truncate(price.current_price, 8)]
        maturity == Plus(current_timestamp, DURATION_U32, checks)
    IN  IF price.err
        THEN [result |-> FeedError, program_data |-> program_data,
              called |-> "bet", query |-> NoQuery]
        ELSE IF ~price.some
        THEN [result |-> BinaryOptionError_into(MarketPriceNotFound),
              program_data |-> program_data,
              called |-> "bet", query |-> NoQuery]
        ELSE IF maturity.panic
        THEN [result |-> Panic, program_data |-> striked,
              called |-> "bet", query |-> NoQuery]
        ELSE [result |-> Ok,
              program_data |-> [striked EXCEPT
                                    !.score = U32(0),
                                    !.maturity_timestamp = maturity.value,
                                    !.is_higher = is_higher,
                                    !.is_betting = 1],
              called |-> "bet", query |-> NoQuery]

bet(program_data, is_higher, current_timestamp, reply, checks) ==
    LET price == get_price(reply)
        striked == [program_data EXCEPT
                        !.strike_price = Truncate(price.current_price, 8)]
        maturity == Plus(current_timestamp, DURATION_U32, checks)
    IN  IF price.err
        THEN [result |-> FeedError, program_data |-> program_data,
              called |-> "bet", query |-> NoQuery]
        ELSE IF ~price.some
        THEN [result |-> BinaryOptionError_into(MarketPriceNotFound),
              program_data |-> program_data,
              called |-> "bet", query |-> NoQuery]
        ELSE IF maturity.panic
        THEN [result |-> Panic, program_data |-> striked,
              called |-> "bet", query |-> NoQuery]
        ELSE [result |-> Ok,
              program_data |-> [striked EXCEPT
                                    !.maturity_timestamp = maturity.value,
                                    !.is_higher = is_higher,
                                    !.is_betting = 1],
              called |-> "bet", query |-> NoQuery]

-----------------------------------------------------------------------------
\* The accounts a client can pass, and the instruction bytes it can send.

DataAccount == [key |-> "data_account", owner |-> PROGRAM_ID]
ForeignAccount == [key |-> "foreign_account", owner |-> "other_program"]
FeedAccount == [key |-> SOL_USD_KEY, owner |-> "chainlink"]
OtherFeed == [key |-> "other_feed", owner |-> "chainlink"]

AccountLists ==
    {<<DataAccount>>, <<DataAccount, FeedAccount>>,
     <<ForeignAccount, FeedAccount>>, <<DataAccount, OtherFeed>>}

Instructions == {SETTLE, OPEN_LONG, OPEN_SHORT, U32(3), U32(256), <<1, 0, 0>>}

-----------------------------------------------------------------------------
\* pub fn process_instruction, up to the match: the result, the local
\* program_data as the match leaves it, which of settle/bet ran and the
\* timestamp asked of the feed.

Rejected(error, program_data, decoded) ==
    [result |-> error, program_data |-> program_data, decoded |-> decoded,
     called |-> "none", query |-> NoQuery]

Called(out) ==
    [result |-> out.result, program_data |-> out.program_data, decoded |-> TRUE,
     called |-> out.called, query |-> out.query]

\* (variant: the comparison taken as `<=`)
MaturityReached_inclusive(sum, now) == ~LessThan(now, sum)

\* `maturity_timestamp + MATURITY_MARGIN < clock.unix_timestamp as u32`
MaturityReached(sum, now) == LessThan(sum, now)

\* (variant: arm 0 without the `is_betting == 0` test)
command_settle_unguarded(program_data, now, reply, checks) ==
    LET sum == Plus(program_data.maturity_timestamp, MARGIN_U32, checks)
    IN  IF sum.panic
        THEN Rejected(Panic, program_data, TRUE)
        ELSE IF LessThan(sum.value, now)
        THEN Called(settle(program_data, reply, checks))
        ELSE Rejected(BinaryOptionError_into(MaturityNotReached), program_data, TRUE)

\* match arm 0: settle the position
command_settle(program_data, now, reply, checks) ==
    LET sum == Plus(program_data.maturity_timestamp, MARGIN_U32, checks)
    IN  IF program_data.is_betting = 0
        THEN Rejected(BinaryOptionError_into(NoPosition), program_data, TRUE)
        ELSE IF sum.panic
        THEN Rejected(Panic, program_data, TRUE)
        ELSE IF MaturityReached(sum.value, now)
        THEN Called(settle(program_data, reply, checks))
        ELSE Rejected(BinaryOptionError_into(MaturityNotReached), program_data, TRUE)

\* (variant: arm 1 | 2 without the `is_betting == 0` test)
command_open_unguarded(command, program_data, now, reply, checks) ==
    Called(bet(program_data, IF command = OPEN_LONG THEN 1 ELSE 0, now, reply, checks))

\* (variant: the command itself stored as the direction)
command_open_raw_direction(command, program_data, now, reply, checks) ==
    IF program_data.is_betting = 0
    THEN Called(bet(program_data, command[1], now, reply, checks))
    ELSE Rejected(InvalidInstructionData, program_data, TRUE)

\* match arm 1 | 2: open a position
command_open(command, program_data, now, reply, checks) ==
    IF program_data.is_betting = 0
    THEN Called(bet(program_data, IF command = OPEN_LONG THEN 1 ELSE 0,
                    now, reply, checks))
    ELSE Rejected(InvalidInstructionData, program_data, TRUE)

\* (variant: the match taken on the low byte of the command alone)
match_command_low_byte(command, program_data, unix_timestamp, reply, checks) ==
    LET now == Truncate(unix_timestamp, 4)
    IN  IF command[1] = 0
        THEN command_settle(program_data, now, reply, checks)
        ELSE IF command[1] = 1 \/ command[1] = 2
        THEN command_open(command, program_data, now, reply, checks)
        ELSE Rejected(InvalidInstructionData, program_data, TRUE)

\* match instruction.command { 0 => .., 1 | 2 => .., _ => .. }
match_command(command, program_data, unix_timestamp, reply, checks) ==
    LET now == Truncate(unix_timestamp, 4)
    IN  IF command = SETTLE
        THEN command_settle(program_data, now, reply, checks)
        ELSE IF command = OPEN_LONG \/ command = OPEN_SHORT
        THEN command_open(command, program_data, now, reply, checks)
        ELSE Rejected(InvalidInstructionData, program_data, TRUE)

\* (variant: the key of the feed account not compared with SOL_USD_KEY)
process_instruction_any_feed(program_id, accounts, instruction_data, account_data, unix_timestamp, reply, checks) ==
    IF Len(accounts) < 2
    THEN Rejected(NotEnoughAccountKeys, DefaultData, FALSE)
    ELSE
    LET data_account == accounts[1]
        program_data == BinaryOptionData_try_from_slice(account_data)
        instruction == BinaryOptionInstruction_try_from_slice(instruction_data)
    IN  IF data_account.owner # program_id
        THEN Rejected(InvalidAccountData, DefaultData, FALSE)
        ELSE IF ~program_data.ok
        THEN Rejected(BorshIoError, DefaultData, FALSE)
        ELSE IF ~instruction.ok
        THEN Rejected(InvalidInstructionData, program_data.value, TRUE)
        ELSE match_command(instruction.command, program_data.value,
                           unix_timestamp, reply, checks)

process_instruction(program_id, accounts, instruction_data, account_data, unix_timestamp, reply, checks) ==
    IF Len(accounts) < 2
    THEN Rejected(NotEnoughAccountKeys, DefaultData, FALSE)
    ELSE
    LET data_account == accounts[1]
        feed_account == accounts[2]
        program_data == BinaryOptionData_try_from_slice(account_data)
        instruction == BinaryOptionInstruction_try_from_slice(instruction_data)
    IN  IF data_account.owner # program_id \/ feed_account.key # SOL_USD_KEY
        THEN Rejected(InvalidAccountData, DefaultData, FALSE)
        ELSE IF ~program_data.ok
        THEN Rejected(BorshIoError, DefaultData, FALSE)
        ELSE IF ~instruction.ok
        THEN Rejected(InvalidInstructionData, program_data.value, TRUE)
        ELSE match_command(instruction.command, program_data.value,
                           unix_timestamp, reply, checks)

\* program_data.serialize(&mut &mut data_account.data.borrow_mut()[..]): the
\* record is written over the start of the account's bytes
serialize_into(program_data, account_data) ==
    LET bytes == BinaryOptionData_serialize(program_data)
    IN  IF Len(account_data) >= Len(bytes)
        THEN [result |-> Ok,
              data |-> bytes \o SubSeq(account_data, Len(bytes) + 1, Len(account_data))]
        ELSE [result |-> BorshIoError,
              data |-> SubSeq(bytes, 1, Len(account_data))]

\* (variant: the record written back whatever the match returned)
Persist_always(out, account_data) ==
    IF out.decoded
    THEN [result |-> out.result,
          data |-> serialize_into(out.program_data, account_data).data]
    ELSE [result |-> out.result, data |-> account_data]

\* result.and_then(|_| program_data.serialize(..)): the record is written only
\* when the match returned Ok
Persist(out, account_data) ==
    IF out.result = Ok
    THEN serialize_into(out.program_data, account_data)
    ELSE [result |-> out.result, data |-> account_data]

-----------------------------------------------------------------------------
\* State machine.

\* no open has succeeded yet
NotOpened == [strike_price |-> U64(0), maturity_timestamp |-> U32(0)]

NoCall ==
    [invoked |-> FALSE, accounts |-> <<>>, instruction_data |-> <<>>,
     reply |-> NotAsked, now |-> I64(0), before |-> <<>>, result |-> Ok,
     called |-> "none", query |-> NoQuery]

U32_MAX == <<255, 255, 255, 255>>

\* clock readings the runs start from: an ordinary one, and one 612 seconds
\* before the u32 timestamp range ends (2^32 - 612)
StartTimes == {I64(1000), WrappingSub(Extend(U32_MAX, 8), I64(611))}

\* by how much the clock advances between transactions: a second, exactly
\* FIXED_DURATION + MATURITY_MARGIN, or a second more
TickSteps == {I64(1), I64(305), I64(306)}

DataSizes == {RecordSize - 1, RecordSize, RecordSize + 1}

\* a data account as the system program creates it: zeroed
Init ==
    /\ data \in {[i \in 1..n |-> 0] : n \in DataSizes}
    /\ clock \in StartTimes
    /\ ticks = 0
    /\ overflow_checks \in BOOLEAN
    /\ settles = 0
    /\ wins = 0
    /\ opened = NotOpened
    /\ last = NoCall

\* time passes
Tick ==
    /\ ~last.invoked
    /\ ticks < MaxTicks
    /\ \E d \in TickSteps : clock' = WrappingAdd(clock, d)
    /\ ticks' = ticks + 1
    /\ UNCHANGED <<data, overflow_checks, settles, wins, opened, last>>

\* whether the invocation gets as far as asking the feed
AsksFeed(accounts, instruction_data) ==
    process_instruction(PROGRAM_ID, accounts, instruction_data, data, clock,
                        NotAsked, overflow_checks).called # "none"

\* one transaction calling the program with these inputs
Call(accounts, instruction_data, reply) ==
    LET out == process_instruction(PROGRAM_ID, accounts, instruction_data,
                                   data, clock, reply, overflow_checks)
        done == Persist(out, data)
        settled == out.called = "settle" /\ done.result = Ok
        won == /\ get_round(reply, out.query).some
               /\ IsWin(BinaryOptionData_try_from_slice(data).value, reply.price)
    IN  /\ data' = done.data
        /\ last' = [invoked |-> TRUE, accounts |-> accounts,
                    instruction_data |-> instruction_data,
                    reply |-> reply,
                    now |-> clock, before |-> data, result |-> done.result,
                    called |-> out.called, query |-> out.query]
        /\ settles' = IF settled THEN settles + 1 ELSE settles
        /\ wins' = IF settled /\ won THEN wins + 1 ELSE wins
        /\ opened' = IF out.called = "bet" /\ done.result = Ok
                     THEN [strike_price |-> out.program_data.strike_price,
                           maturity_timestamp |-> out.program_data.maturity_timestamp]
                     ELSE opened
        /\ UNCHANGED <<clock, ticks, overflow_checks>>

\* one transaction calling the program; the feed answers when it is asked
Invoke ==
    /\ ~last.invoked
    /\ settles < MaxSettles
    /\ \E accounts \in AccountLists, instruction_data \in Instructions :
        \E reply \in IF AsksFeed(accounts, instruction_data)
                     THEN FeedReplies ELSE {NotAsked} :
            Call(accounts, instruction_data, reply)

\* the transaction is over: its result has been reported to the client
Return ==
    /\ last.invoked
    /\ last' = NoCall
    /\ UNCHANGED <<data, clock, ticks, overflow_checks, settles, wins, opened>>

Next == Tick \/ Invoke \/ Return

Spec == Init /\ [][Next]_vars

\* A data account whose bytes this build of the program did not write (the
\* flags are u8 fields: try_from_slice takes any byte for them).
FlagBytes == {0, 1, 2}

StoredRecords ==
    {BinaryOptionData_serialize(
         [score |-> U32(5), maturity_timestamp |-> U32(1300),
          strike_price |-> U64(100), is_higher |-> h, is_betting |-> b]) :
     h \in FlagBytes, b \in FlagBytes}

InitStored ==
    /\ data \in StoredRecords
    /\ clock = I64(1000)
    /\ ticks = 0
    /\ overflow_checks \in BOOLEAN
    /\ settles = 0
    /\ wins = 0
    /\ opened = NotOpened
    /\ last = NoCall

SpecStored == InitStored /\ [][Next]_vars

\* The program's own clients: transactions with the program's accounts that
\* open a position, and transactions that settle it, for which the feed, when
\* it is asked, answers a sample or none.
Accounts == <<DataAccount, FeedAccount>>

OpenCall ==
    /\ ~last.invoked
    /\ settles < MaxSettles
    /\ \E instruction_data \in {OPEN_LONG, OPEN_SHORT} :
        \E reply \in IF AsksFeed(Accounts, instruction_data)
                     THEN FeedReplies ELSE {NotAsked} :
            Call(Accounts, instruction_data, reply)

SettleCall ==
    /\ ~last.invoked
    /\ settles < MaxSettles
    /\ \E reply \in IF AsksFeed(Accounts, SETTLE)
                     THEN {r \in FeedReplies : r.kind # "Err"} ELSE {NotAsked} :
            Call(Accounts, SETTLE, reply)

InitLive ==
    /\ data = [i \in 1..RecordSize |-> 0]
    /\ clock = I64(1000)
    /\ ticks = 0
    /\ overflow_checks \in BOOLEAN
    /\ settles = 0
    /\ wins = 0
    /\ opened = NotOpened
    /\ last = NoCall

NextLive == Tick \/ OpenCall \/ SettleCall \/ Return

\* Every transaction returns, and a Settle that can be submitted again and
\* again is submitted (it cannot be while another transaction is running).
SpecLive ==
    InitLive /\ [][NextLive]_vars /\ WF_vars(Return) /\ SF_vars(SettleCall)

-----------------------------------------------------------------------------
\* Reading the last invocation: the record before and after it, as integers.

Before == BinaryOptionData_try_from_slice(last.before).value
After == BinaryOptionData_try_from_slice(data).value
Command == last.instruction_data

\* the invocation got as far as the match on the command
ReachedMatch ==
    /\ last.invoked
    /\ last.accounts = <<DataAccount, FeedAccount>>
    /\ Len(last.before) = RecordSize
    /\ Len(last.instruction_data) = InstructionSize

\* integers without a width: 17 bytes hold every sum and comparison made below
Wide(a) == Extend(a, 17)
IntPlus(a, b) == WrappingAdd(Wide(a), Wide(b))
IntLess(a, b) == LessThan(Wide(a), Wide(b))
IntSucc(a, b) == IntPlus(a, ONE_U32) = Wide(b)

\* maturity_timestamp + MATURITY_MARGIN of the record before, as an integer
Deadline == IntPlus(Before.maturity_timestamp, MARGIN_U32)

SettleOnOpen == ReachedMatch /\ Command = SETTLE /\ Before.is_betting # 0
SettleOnIdle == ReachedMatch /\ Command = SETTLE /\ Before.is_betting = 0
OpenOnOpen ==
    ReachedMatch /\ Command \in {OPEN_LONG, OPEN_SHORT} /\ Before.is_betting # 0
UnknownCommand ==
    ReachedMatch /\ Command \notin {SETTLE, OPEN_LONG, OPEN_SHORT}
Unchanged == data = last.before

-----------------------------------------------------------------------------
\* C1 (as stated): on an Open record Settle is let through exactly when
\* now >= maturity_timestamp + 5 and fails with MaturityNotReached exactly when
\* now < maturity_timestamp + 5.
C1_AsStated ==
    SettleOnOpen =>
        /\ last.called = "settle" <=> ~IntLess(last.now, Deadline)
        /\ last.result = Custom(MaturityNotReached) <=> IntLess(last.now, Deadline)

\* C1 (amended): on an Open record, with now the clock reading as u32 and the
\* sum maturity_timestamp + 5 taken in u32, Settle is let through exactly when
\* now > sum and fails with MaturityNotReached exactly when now <= sum; a sum
\* that overflows u32 panics in an overflow-checking build and is taken
\* modulo 2^32 otherwise.  Where nothing overflows this is now > maturity + 5:
\* Settle at maturity + 5 is rejected, maturity + 6 is the first time let through.
C1_SettleGate ==
    SettleOnOpen =>
        LET now == Truncate(last.now, 4)
            sum == WrappingAdd(Before.maturity_timestamp, MARGIN_U32)
        IN  IF AddOverflows(Before.maturity_timestamp, MARGIN_U32) /\ overflow_checks
            THEN last.result = Panic /\ last.called = "none"
            ELSE /\ last.called = "settle" <=> GreaterThan(now, sum)
                 /\ last.result = Custom(MaturityNotReached) <=> ~GreaterThan(now, sum)
                 /\ (~AddOverflows(Before.maturity_timestamp, MARGIN_U32)
                       /\ Wide(now) = Deadline)
                        => last.result = Custom(MaturityNotReached)
                 /\ (~AddOverflows(Before.maturity_timestamp, MARGIN_U32)
                       /\ Wide(now) = IntPlus(Deadline, ONE_U32))
                        => last.called = "settle"

\* C1 witness: a Settle sent at exactly maturity_timestamp + 5 was rejected
C1_Witness ==
    /\ SettleOnOpen
    /\ Wide(last.now) = Deadline
    /\ last.result = Custom(MaturityNotReached)

-----------------------------------------------------------------------------
\* C2 (as stated): a settlement that got a sample s wins iff (is_higher and
\* s > strike_price) or (not is_higher and s < strike_price); the score goes up
\* by exactly 1 on a win, down by exactly 1 otherwise, and is_betting is cleared.
C2_Wins ==
    \/ Before.is_higher = 1 /\ IntLess(Before.strike_price, last.reply.price)
    \/ Before.is_higher = 0 /\ IntLess(last.reply.price, Before.strike_price)

C2_AsStated ==
    (SettleOnOpen /\ last.called = "settle" /\ last.reply.kind = "Some") =>
        /\ C2_Wins => IntSucc(Before.score, After.score)
        /\ ~C2_Wins => IntSucc(After.score, Before.score)
        /\ After.is_betting = 0

-----------------------------------------------------------------------------
\* C3: whenever an invocation returns an error (or panics), the bytes of the
\* data account are what they were before the invocation.
C3_ErrorLeavesRecord == (last.invoked /\ last.result # Ok) => Unchanged

\* C3 witness: an open that had already set strike_price locally ended in an
\* error (the overflow panic of now + 300), with a price other than the stored one
C3_Witness ==
    /\ ReachedMatch
    /\ last.called = "bet"
    /\ last.result = Panic
    /\ Truncate(last.reply.price, 8) # Before.strike_price

-----------------------------------------------------------------------------
\* C4 (as stated): the stored score never wraps: every change of the score is a
\* step of one up or one down between integers, never 0 -> 2^32 - 1 nor
\* 2^32 - 1 -> 0.
C4_AsStated ==
    (last.invoked /\ Len(last.before) = RecordSize) =>
        \/ After.score = Before.score
        \/ IntSucc(Before.score, After.score)
        \/ IntSucc(After.score, Before.score)

-----------------------------------------------------------------------------
\* C5 (as stated): a successful OpenLong/OpenShort at time now with current
\* price p sets strike_price = p, maturity_timestamp = now + 300, is_higher = 1
\* for OpenLong and 0 for OpenShort, and is_betting = 1.
C5_AsStated ==
    (ReachedMatch /\ last.called = "bet" /\ last.result = Ok) =>
        /\ Wide(After.strike_price) = Wide(last.reply.price)
        /\ Wide(After.maturity_timestamp) = IntPlus(last.now, DURATION_U32)
        /\ After.is_higher = (IF Command = OPEN_LONG THEN 1 ELSE 0)
        /\ After.is_betting = 1

-----------------------------------------------------------------------------
\* C6 (as stated): a Settle past maturity plus margin for which the feed has no
\* sample succeeds: the score goes down by exactly 1, is_betting is cleared and
\* the record is persisted.
C6_AsStated ==
    (SettleOnOpen /\ last.called = "settle" /\ last.reply.kind = "None") =>
        /\ last.result = Ok
        /\ IntSucc(After.score, Before.score)
        /\ After.is_betting = 0

-----------------------------------------------------------------------------
\* C7 (as stated): a settlement whose sample equals strike_price is a loss for
\* both directions: the score goes down by 1 and is_betting is cleared.
C7_AsStated ==
    (SettleOnOpen /\ last.called = "settle" /\ last.reply.kind = "Some"
        /\ Wide(last.reply.price) = Wide(Before.strike_price)) =>
        /\ IntSucc(After.score, Before.score)
        /\ After.is_betting = 0

-----------------------------------------------------------------------------
\* C8: on an Idle record (is_betting = 0) Settle fails with NoPosition, the
\* record is unchanged, the feed is not asked, and the rejection is the
\* is_betting test, not the maturity test.
C8_SettleOnIdle ==
    SettleOnIdle =>
        /\ last.result = Custom(NoPosition)
        /\ Unchanged
        /\ last.called = "none"
        /\ last.query = NoQuery
        /\ last.reply = NotAsked

\* C8 witness: Settle on an Idle record at a time the maturity test would have
\* rejected or panicked on
C8_Witness ==
    /\ SettleOnIdle
    /\ last.result = Custom(NoPosition)
    /\ ~MaturityReached(WrappingAdd(Before.maturity_timestamp, MARGIN_U32),
                        Truncate(last.now, 4))

-----------------------------------------------------------------------------
\* C9: on an Open record OpenLong and OpenShort fail (InvalidInstructionData is
\* what the program returns for a position already open), before and after
\* maturity, and leave every field of the record unchanged.
C9_OpenOnOpen ==
    OpenOnOpen =>
        /\ last.result = InvalidInstructionData
        /\ Unchanged
        /\ After = Before
        /\ last.called = "none"

\* C9 witness: an open was refused on an Open record already past maturity
\* plus margin
C9_Witness ==
    /\ OpenOnOpen
    /\ last.result = InvalidInstructionData
    /\ IntLess(Deadline, last.now)

-----------------------------------------------------------------------------
\* C10: a command code outside {0, 1, 2} fails (InvalidInstructionData) and the
\* record is not changed, whether it is Idle or Open; so any run of unknown
\* commands leaves the record as it was.
C10_UnknownCommand ==
    UnknownCommand =>
        /\ last.result = InvalidInstructionData
        /\ Unchanged
        /\ last.called = "none"

\* C10 witness: command 256 (low byte 0) was refused on an Open record
C10_Witness ==
    /\ UnknownCommand
    /\ Command = U32(256)
    /\ Before.is_betting = 1
    /\ last.result = InvalidInstructionData

-----------------------------------------------------------------------------
\* Successful opens and settlements of the last invocation.

OpenSucceeded == ReachedMatch /\ last.called = "bet" /\ last.result = Ok
SettleSucceeded == ReachedMatch /\ last.called = "settle" /\ last.result = Ok

\* C11 (as stated): the record holds at most one open position.  An open
\* succeeds only on an Idle record and leaves it Open; a settlement succeeds
\* only on an Open record, not before maturity_timestamp + 5, and leaves it
\* Idle; nothing else changes is_betting (so, from an Idle record, successful
\* opens and settlements alternate, beginning with an open).
C11_AsStated ==
    /\ OpenSucceeded => Before.is_betting = 0 /\ After.is_betting = 1
    /\ SettleSucceeded =>
        /\ Before.is_betting = 1 /\ After.is_betting = 0
        /\ ~IntLess(last.now, Deadline)
    /\ (last.invoked /\ Len(last.before) = RecordSize
            /\ After.is_betting # Before.is_betting)
        => OpenSucceeded \/ SettleSucceeded

-----------------------------------------------------------------------------
\* C12: on an Idle record, OpenLong/OpenShort for which the feed has no current
\* price fails with MarketPriceNotFound (the program's PriceUnavailable); the
\* record stays Idle and every field, strike_price, maturity_timestamp and
\* is_higher included, is what it was.
OpenWithoutPrice ==
    /\ ReachedMatch
    /\ Command \in {OPEN_LONG, OPEN_SHORT}
    /\ Before.is_betting = 0
    /\ last.reply.kind = "None"

C12_PriceUnavailable ==
    OpenWithoutPrice =>
        /\ last.result = Custom(MarketPriceNotFound)
        /\ last.called = "bet"
        /\ Unchanged
        /\ After = Before
        /\ After.is_betting = 0

\* C12 witness: an open without a price was refused on an Idle record that
\* still holds the strike, maturity and direction of an earlier position
C12_Witness ==
    /\ OpenWithoutPrice
    /\ last.result = Custom(MarketPriceNotFound)
    /\ Command = OPEN_SHORT
    /\ Before.strike_price # U64(0)
    /\ Before.maturity_timestamp # U32(0)
    /\ Before.is_higher = 1

-----------------------------------------------------------------------------
\* C13: an invocation whose data account is not owned by the program, or whose
\* feed account is not the SOL_USD_KEY account, is rejected (InvalidAccountData
\* is what the program returns for both) before the record is decoded and
\* before settle or bet runs: whatever the command, whatever the bytes of the
\* record (well formed or not), the feed is not asked and nothing is written.
NotOwned == last.invoked /\ Len(last.accounts) >= 2 /\ last.accounts[1].owner # PROGRAM_ID
WrongFeed == last.invoked /\ Len(last.accounts) >= 2 /\ last.accounts[2].key # SOL_USD_KEY

C13_AccountsVerifiedFirst ==
    (NotOwned \/ WrongFeed) =>
        /\ last.result = InvalidAccountData
        /\ last.called = "none"
        /\ last.reply = NotAsked
        /\ last.query = NoQuery
        /\ Unchanged

\* C13 witness: a Settle on an Open record past maturity plus margin, which
\* the program would have carried out, was rejected for its feed account
C13_Witness ==
    /\ WrongFeed
    /\ ~NotOwned
    /\ last.result = InvalidAccountData
    /\ Command = SETTLE
    /\ Len(last.before) = RecordSize
    /\ Before.is_betting = 1
    /\ IntLess(IntPlus(Deadline, ONE_U32), last.now)

-----------------------------------------------------------------------------
\* The failure kind an invocation falls under, read off its inputs; "none"
\* where it succeeds or fails otherwise (too few accounts, an error of the
\* feed, a panic).
FailureKind(accounts, instruction_data, account_data, unix_timestamp, reply, checks) ==
    LET record == BinaryOptionData_try_from_slice(account_data).value
        sum == Plus(record.maturity_timestamp, MARGIN_U32, checks)
    IN  IF Len(accounts) < 2 THEN "none"
        ELSE IF accounts[1].owner # PROGRAM_ID THEN "Unauthorized"
        ELSE IF accounts[2].key # SOL_USD_KEY THEN "UntrustedOracle"
        ELSE IF Len(account_data) # RecordSize THEN "MalformedRecord"
        ELSE IF Len(instruction_data) # InstructionSize THEN "MalformedInstruction"
        ELSE IF instruction_data \notin {SETTLE, OPEN_LONG, OPEN_SHORT} THEN "UnknownCommand"
        ELSE IF instruction_data = SETTLE /\ record.is_betting = 0 THEN "NoOpenPosition"
        ELSE IF instruction_data = SETTLE
        THEN IF ~sum.panic /\ ~MaturityReached(sum.value, Truncate(unix_timestamp, 4))
             THEN "MaturityNotReached" ELSE "none"
        ELSE IF record.is_betting # 0 THEN "PositionAlreadyOpen"
        ELSE IF reply.kind = "None" THEN "PriceUnavailable"
        ELSE "none"

LastKind ==
    FailureKind(last.accounts, last.instruction_data, last.before, last.now,
                last.reply, overflow_checks)

\* C14 (as stated): every failure kind is reported with a code that no other
\* failure kind is reported with: the result of a failed invocation differs
\* from the result of every invocation, on the same record at the same time,
\* that fails with another kind.
C14_AsStated ==
    (last.invoked /\ LastKind # "none") =>
        \A accounts \in AccountLists, instruction_data \in Instructions,
           reply \in FeedReplies :
            LET kind == FailureKind(accounts, instruction_data, last.before,
                                    last.now, reply, overflow_checks)
                other == process_instruction(PROGRAM_ID, accounts, instruction_data,
                                             last.before, last.now, reply,
                                             overflow_checks)
            IN  (kind # "none" /\ kind # LastKind) => other.result # last.result

-----------------------------------------------------------------------------
\* C15 (as stated): a record whose is_higher or is_betting byte is neither 0
\* nor 1 is rejected as malformed (BorshIoError is what the program returns
\* for a record it cannot decode) whatever the command: neither settle nor bet
\* runs on it and nothing is written.
FlagOutOfRange ==
    /\ ReachedMatch
    /\ (Before.is_higher \notin {0, 1} \/ Before.is_betting \notin {0, 1})

C15_AsStated ==
    FlagOutOfRange =>
        /\ last.result = BorshIoError
        /\ last.called = "none"
        /\ Unchanged

-----------------------------------------------------------------------------
\* C16 (as stated): an open position does not stay open forever.  Once the
\* clock is past maturity_timestamp + 5 and Settle keeps being submitted, the
\* feed answering a sample or none, the record returns to Idle.
PositionOpen == Len(data) = RecordSize /\ After.is_betting = 1
PositionIdle == Len(data) = RecordSize /\ After.is_betting = 0
MaturityPassed == IntLess(IntPlus(After.maturity_timestamp, MARGIN_U32), clock)

C16_AsStated == (PositionOpen /\ MaturityPassed) ~> PositionIdle

-----------------------------------------------------------------------------
\* C17 (as stated): after a successful open at a 32-bit time t, no Settle
\* succeeds at a time earlier than t + 300 + 5.  The open time of the position
\* being settled is read off the record: the one 32-bit t whose t + 300, taken
\* in u32, is the stored maturity_timestamp.
OpenedAt == WrappingSub(Before.maturity_timestamp, DURATION_U32)
EarliestSettle == IntPlus(IntPlus(OpenedAt, DURATION_U32), MARGIN_U32)

C17_AsStated == SettleSucceeded => ~IntLess(last.now, EarliestSettle)

-----------------------------------------------------------------------------
\* C18: settle asks the feed for the round at the record's maturity_timestamp,
\* never for the time of the Settle; so what a settlement does depends on the
\* record and on the feed's answer for that timestamp alone: sent at any other
\* time at which Settle is let through, the same Settle asks the same question
\* and, given the same answer, ends with the same result and the same record.
OtherTimes ==
    {WrappingAdd(last.now, I64(1)), WrappingAdd(last.now, I64(306)),
     WrappingAdd(Extend(WrappingAdd(Before.maturity_timestamp, MARGIN_U32), 8), I64(1))}

SettleAt(now, reply) ==
    process_instruction(PROGRAM_ID, last.accounts, last.instruction_data,
                        last.before, now, reply, overflow_checks)

C18_AsksForMaturity ==
    (ReachedMatch /\ last.called = "settle") =>
        /\ last.query = Extend(Before.maturity_timestamp, 8)
        /\ \A now \in OtherTimes :
            SettleAt(now, last.reply).called = "settle" =>
                /\ SettleAt(now, last.reply).query = last.query
                /\ Persist(SettleAt(now, last.reply), last.before)
                     = [result |-> last.result, data |-> data]

\* C18 witness: a winning settlement sent later than the first second at
\* which Settle is let through
C18_Witness ==
    /\ SettleSucceeded
    /\ last.reply.kind = "Some"
    /\ IntSucc(Before.score, After.score)
    /\ IntLess(IntPlus(Deadline, ONE_U32), last.now)
    /\ last.query # last.now

-----------------------------------------------------------------------------
\* C19: the score changes only through a successful Settle, and a successful
\* Settle moves it by exactly one step: one up or one down in u32, which is
\* + 1 or - 1 between integers unless the step wraps (0 - 1, 2^32 - 1 + 1).
\* A successful open and every failed invocation leave the score as it was.
\* So, from the zeroed record, the score is 0 + wins - losses in u32, which
\* is the integer as long as nothing wrapped.
ScoreUp == After.score = WrappingAdd(Before.score, ONE_U32)
ScoreDown == After.score = WrappingSub(Before.score, ONE_U32)

C19_ScoreFrame ==
    /\ (last.invoked /\ Len(last.before) = RecordSize) =>
        /\ SettleSucceeded => ScoreUp \/ ScoreDown
        /\ (SettleSucceeded /\ ScoreUp /\ ~AddOverflows(Before.score, ONE_U32))
              => IntSucc(Before.score, After.score)
        /\ (SettleSucceeded /\ ScoreDown /\ ~SubOverflows(Before.score, ONE_U32))
              => IntSucc(After.score, Before.score)
        /\ ~SettleSucceeded => After.score = Before.score
    /\ Len(data) = RecordSize =>
        After.score = WrappingSub(WrappingAdd(U32(0), U32(wins)), U32(settles - wins))

\* C19 witness: a successful open on a record whose score an earlier
\* settlement had raised, after which the score is what it was
C19_Witness ==
    /\ OpenSucceeded
    /\ Before.score = U32(1)
    /\ After.score = U32(1)
    /\ wins = 1
    /\ settles = 1

-----------------------------------------------------------------------------
\* C20: from the zeroed record, is_betting and is_higher are always 0 or 1, and
\* whenever is_betting = 1 the stored maturity_timestamp and strike_price are
\* those the most recent successful open wrote; a successful Settle leaves
\* strike_price, maturity_timestamp and is_higher as they were.
C20_RecordInvariant ==
    /\ Len(data) = RecordSize =>
        /\ After.is_betting \in {0, 1}
        /\ After.is_higher \in {0, 1}
        /\ After.is_betting = 1 =>
            /\ After.strike_price = opened.strike_price
            /\ After.maturity_timestamp = opened.maturity_timestamp
    /\ SettleSucceeded =>
        /\ After.strike_price = Before.strike_price
        /\ After.maturity_timestamp = Before.maturity_timestamp
        /\ After.is_higher = Before.is_higher

\* C20 witness: after one settlement a second position was opened short
\* (at a price other than 100), and a further open on it has been refused
C20_Witness ==
    /\ OpenOnOpen
    /\ settles = 1
    /\ After.is_betting = 1
    /\ After.is_higher = 0
    /\ After.strike_price = opened.strike_price
    /\ After.strike_price # U64(100)

====
